---- MODULE Spec2Model ----
(***************************************************************************)
(* Model of the storage-triggered media pipeline of functions-samples:     *)
(*   src/ffmpeg-convert-video/functions/index.js   (variant "index")       *)
(*   src/unnamed/part_000                          (variant "part_000")    *)
(* Both files export the same handler, generateThumbnail; the variable     *)
(* `variant` says which of the two files is deployed.                      *)
(*                                                                         *)
(* Strings are sequences of one-character strings, so that startsWith,     *)
(* endsWith, toLowerCase, the extension regex and the path functions are   *)
(* computed character by character as the code computes them.              *)
(*                                                                         *)
(* One action is one continuation of the async handler: everything the     *)
(* handler runs between the completion of one awaited call and the issue   *)
(* of the next one (or its return / rejection).                            *)
(***************************************************************************)
EXTENDS Integers, Sequences, FiniteSets, TLC

VARIABLES
    variant,      \* which source file is deployed: "index" or "part_000"
    inv,          \* inv[i]: the state of invocation i of generateThumbnail
    localFiles    \* the paths that exist on the local scratch file system

vars == <<variant, inv, localFiles>>

(***************************************************************************)
(* Strings                                                                 *)
(***************************************************************************)

\* String.prototype.toLowerCase on one character.
LowerChar(c) ==
    CASE c = "A" -> "a" [] c = "B" -> "b" [] c = "C" -> "c" [] c = "D" -> "d"
      [] c = "E" -> "e" [] c = "F" -> "f" [] c = "G" -> "g" [] c = "H" -> "h"
      [] c = "I" -> "i" [] c = "J" -> "j" [] c = "K" -> "k" [] c = "L" -> "l"
      [] c = "M" -> "m" [] c = "N" -> "n" [] c = "O" -> "o" [] c = "P" -> "p"
      [] c = "Q" -> "q" [] c = "R" -> "r" [] c = "S" -> "s" [] c = "T" -> "t"
      [] c = "U" -> "u" [] c = "V" -> "v" [] c = "W" -> "w" [] c = "X" -> "x"
      [] c = "Y" -> "y" [] c = "Z" -> "z" [] OTHER -> c

\* String.prototype.toLowerCase.
ToLowerCase(s) == [k \in 1..Len(s) |-> LowerChar(s[k])]

\* String.prototype.startsWith.
StartsWith(s, p) == Len(p) <= Len(s) /\ SubSeq(s, 1, Len(p)) = p

\* String.prototype.endsWith.
EndsWith(s, p) == Len(p) <= Len(s) /\ SubSeq(s, Len(s) - Len(p) + 1, Len(s)) = p

\* The positions k of s where the regular expression /\.[^/.]+$/ matches:
\* a dot at k, followed to the end of s by one or more characters that are
\* neither a slash nor a dot.
ExtMatches(s) ==
    {k \in 1..Len(s) :
        /\ s[k] = "."
        /\ k < Len(s)
        /\ \A m \in (k+1)..Len(s) : s[m] # "/" /\ s[m] # "."}

\* s.replace(/\.[^/.]+$/, r): the leftmost match is replaced; without a
\* match the string is returned unchanged.
ReplaceExt(s, r) ==
    IF ExtMatches(s) = {} THEN s
    ELSE LET k == CHOOSE x \in ExtMatches(s) : \A y \in ExtMatches(s) : x <= y
         IN  SubSeq(s, 1, k - 1) \o r

(***************************************************************************)
(* Paths (node's path module, POSIX flavour)                               *)
(***************************************************************************)

Slashes(p) == {k \in 1..Len(p) : p[k] = "/"}

LastSlash(p) == CHOOSE k \in Slashes(p) : \A m \in Slashes(p) : m <= k

\* path.basename, for a path that does not end with a slash.
Basename(p) ==
    IF Slashes(p) = {} THEN p ELSE SubSeq(p, LastSlash(p) + 1, Len(p))

\* path.dirname, for a path that does not end with a slash.
Dirname(p) ==
    IF Slashes(p) = {} THEN <<".">>
    ELSE IF LastSlash(p) = 1 THEN <<"/">>
    ELSE SubSeq(p, 1, LastSlash(p) - 1)

\* The segments of a path between its slashes (empty segments included).
RECURSIVE Segments(_)
Segments(p) ==
    IF Slashes(p) = {} THEN <<p>>
    ELSE LET k == CHOOSE x \in Slashes(p) : \A y \in Slashes(p) : x <= y
         IN  <<SubSeq(p, 1, k - 1)>> \o Segments(SubSeq(p, k + 1, Len(p)))

\* Segments joined by single slashes.
RECURSIVE JoinSegments(_)
JoinSegments(segs) ==
    IF segs = <<>> THEN <<>>
    ELSE IF Len(segs) = 1 THEN segs[1]
    ELSE segs[1] \o <<"/">> \o JoinSegments(Tail(segs))

\* path.normalize, for paths without ".." segments and without a trailing
\* slash: empty and "." segments are dropped, a leading slash is kept, and
\* the empty result is ".".
Normalize(p) ==
    LET segs == SelectSeq(Segments(p), LAMBDA s : s # <<>> /\ s # <<".">>)
        body == JoinSegments(segs)
    IN  IF Len(p) > 0 /\ p[1] = "/" THEN <<"/">> \o body
        ELSE IF body = <<>> THEN <<".">>
        ELSE body

\* path.join(a, b): the non-empty arguments joined by a slash, normalized.
PathJoin(a, b) ==
    IF a = <<>> THEN Normalize(b)
    ELSE IF b = <<>> THEN Normalize(a)
    ELSE Normalize(a \o <<"/">> \o b)

\* os.tmpdir() of the functions runtime.
TmpDir == <<"/", "t", "m", "p">>

(***************************************************************************)
(* Program constants                                                       *)
(***************************************************************************)

Variants == {"index", "part_000"}

\* THUMB_MAX_WIDTH and THUMB_MAX_HEIGHT of the deployed file.
THUMB_MAX_WIDTH(v) == IF v = "index" THEN 300 ELSE 200
THUMB_MAX_HEIGHT(v) == IF v = "index" THEN 300 ELSE 200

\* THUMB_PREFIX = 'thumb_'
THUMB_PREFIX == <<"t", "h", "u", "m", "b", "_">>

\* The string literals of the handler.
ImageSlash == <<"i", "m", "a", "g", "e", "/">>
VideoSlash == <<"v", "i", "d", "e", "o", "/">>
PosterSuffix == <<"_", "p", "o", "s", "t", "e", "r", ".", "j", "p", "g">>
OutputSuffix == <<"_", "o", "u", "t", "p", "u", "t", ".", "m", "p", "4">>
ThumbOutputSuffix ==
    <<"_", "t", "h", "u", "m", "b", "_", "o", "u", "t", "p", "u", "t", ".", "m", "p", "4">>

\* The preview thresholds: the literals of
\* `dimensions.height > 480` and `dimensions.width > 425`.
PreviewMaxHeight == 480
PreviewMaxWidth == 425

\* The Cache-Control values of the uploads.
CacheOneHour == "public,max-age=3600"
CacheOneYear == "public, max-age=31536000"

(***************************************************************************)
(* Classification: the conditions of the handler                           *)
(***************************************************************************)

\* The content type as the deployed file compares it: index.js lower-cases
\* it before every startsWith, part_000 compares it as delivered.
ComparedType(v, contentType) ==
    IF v = "index" THEN ToLowerCase(contentType) ELSE contentType

\* contentType...startsWith('image/')
IsImageType(v, contentType) == StartsWith(ComparedType(v, contentType), ImageSlash)

\* contentType...startsWith('video/')
IsVideoType(v, contentType) == StartsWith(ComparedType(v, contentType), VideoSlash)

\* The negation of the first `if` of the handler: the object is processed.
IsEligible(v, contentType) ==
    ~ (~ IsImageType(v, contentType) /\ ~ IsVideoType(v, contentType))

\* Faulty variant of IsDerivedImageName: the poster suffix is not checked.
IsDerivedImageName_ThumbOnly(v, fileName) ==
    IF v = "index" THEN StartsWith(ToLowerCase(fileName), THUMB_PREFIX)
    ELSE StartsWith(fileName, THUMB_PREFIX)

\* "Exit if the image is already a thumbnail": the condition of the early
\* return of the image branch.
IsDerivedImageName(v, fileName) ==
    IF v = "index"
    THEN \/ StartsWith(ToLowerCase(fileName), THUMB_PREFIX)
         \/ EndsWith(ToLowerCase(fileName), PosterSuffix)
    ELSE StartsWith(fileName, THUMB_PREFIX)

\* "prevent triggering another converting mp4 file": the condition of the
\* early return of the video branch.
IsDerivedVideoName(v, fileName) ==
    IF v = "index"
    THEN EndsWith(ToLowerCase(fileName), OutputSuffix)
    ELSE EndsWith(fileName, OutputSuffix)

(***************************************************************************)
(* Naming: the keys and scratch paths the handler computes                 *)
(***************************************************************************)

\* tempLocalFile = path.join(os.tmpdir(), filePath), and the same join for
\* every derived artifact.
TempPath(key) == PathJoin(TmpDir, key)

\* thumbFilePath
ThumbFilePath(filePath) ==
    Normalize(PathJoin(Dirname(filePath), THUMB_PREFIX \o Basename(filePath)))

\* mp4FilePath: index.js replaces the extension by '_output.mp4'; part_000
\* removes the extension and appends '_output.mp4'.
Mp4FilePath(v, filePath) ==
    IF v = "index"
    THEN Normalize(PathJoin(Dirname(filePath),
                            ReplaceExt(Basename(filePath), OutputSuffix)))
    ELSE Normalize(PathJoin(Dirname(filePath),
                            ReplaceExt(Basename(filePath), <<>>) \o OutputSuffix))

\* mp4FilePathThumb
Mp4FilePathThumb(filePath) ==
    Normalize(PathJoin(Dirname(filePath),
                       ReplaceExt(Basename(filePath), ThumbOutputSuffix)))

\* remotePath of createPoster: the replace acts on the whole key and the
\* result is not normalized.
PosterRemotePath(filePath) == ReplaceExt(filePath, PosterSuffix)

(***************************************************************************)
(* JavaScript values and the probe results                                 *)
(***************************************************************************)

\* A JavaScript number, or undefined (a property that is not there).
Num(n) == [def |-> TRUE, v |-> n]
Undefined == [def |-> FALSE, v |-> 0]

\* a < b and a > b of JavaScript: false when either side is undefined.
JsLess(a, n) == a.def /\ a.v < n
JsGreater(a, n) == a.def /\ a.v > n

\* One entry of metadata.streams as ffprobe reports it. An audio stream has
\* no width and no height.
Stream(codec, w, h) ==
    IF codec = "aac"
    THEN [codec_type |-> "audio", codec_name |-> codec,
          width |-> Undefined, height |-> Undefined]
    ELSE [codec_type |-> "video", codec_name |-> codec,
          width |-> Num(w), height |-> Num(h)]

\* getCodec: the forEach callback runs for every stream; each video stream
\* calls resolve with its codec name, and only the first resolve of a
\* promise takes effect. `settled` is FALSE when resolve was never called.
RECURSIVE GetCodecFrom(_, _, _)
GetCodecFrom(streams, k, promise) ==
    IF k > Len(streams) THEN promise
    ELSE IF streams[k].codec_type = "video"
         THEN GetCodecFrom(streams, k + 1,
                  IF promise.settled THEN promise
                  ELSE [settled |-> TRUE, value |-> streams[k].codec_name])
         ELSE GetCodecFrom(streams, k + 1, promise)

GetCodec(streams) ==
    GetCodecFrom(streams, 1, [settled |-> FALSE, value |-> "null"])

\* getDimentions on a successful ffprobe: width and height of streams[0];
\* reading streams[0].width of an empty list throws a TypeError.
GetDimentions(streams) ==
    IF streams = <<>>
    THEN [threw |-> TRUE, width |-> Undefined, height |-> Undefined]
    ELSE [threw |-> FALSE, width |-> streams[1].width, height |-> streams[1].height]

NoDimensions == [threw |-> FALSE, width |-> Undefined, height |-> Undefined]

\* 100 - ((dimension - threshold) / dimension) * 100 when the dimension
\* exceeds the threshold, else 0, as an exact fraction num/den. (For every
\* dimension below 200000 the double-precision value the code computes has
\* the same floor as the exact value.)
ReducePercentage(dimension, threshold) ==
    IF JsGreater(dimension, threshold)
    THEN [num |-> 100 * dimension.v - (dimension.v - threshold) * 100,
          den |-> dimension.v]
    ELSE [num |-> 0, den |-> 1]

\* Faulty variant of Reduce: the larger of the two percentages is taken.
Reduce_Larger(dimensions) ==
    LET rh == ReducePercentage(dimensions.height, PreviewMaxHeight)
        rw == ReducePercentage(dimensions.width, PreviewMaxWidth)
        m == IF rh.num * rw.den > rw.num * rh.den THEN rh ELSE rw
    IN  m.num \div m.den

\* reduce = Math.floor(rh < rw ? rh : rw)
Reduce(dimensions) ==
    LET rh == ReducePercentage(dimensions.height, PreviewMaxHeight)
        rw == ReducePercentage(dimensions.width, PreviewMaxWidth)
        m == IF rh.num * rw.den < rw.num * rh.den THEN rh ELSE rw
    IN  m.num \div m.den

\* Faulty variant of BelowThumbBox: one dimension below the box is enough.
BelowThumbBox_Either(v, dimensions) ==
    \/ JsLess(dimensions.width, THUMB_MAX_WIDTH(v))
    \/ JsLess(dimensions.height, THUMB_MAX_HEIGHT(v))

\* The size gate of the image branch: both dimensions below the box.
BelowThumbBox(v, dimensions) ==
    /\ JsLess(dimensions.width, THUMB_MAX_WIDTH(v))
    /\ JsLess(dimensions.height, THUMB_MAX_HEIGHT(v))

(***************************************************************************)
(* The state of one invocation                                             *)
(***************************************************************************)

Ids == {1, 2}

\* pc: the awaited call the invocation is suspended on, or how it ended:
\*   "done"    the handler returned,
\*   "failed"  the handler's promise was rejected,
\*   "pending" the handler awaits a promise that is never settled.
\* calls is the history of the external calls: "start" when issued, "ok" or
\* an error when completed. transforms and uploads hold the arguments of
\* every transform and upload the handler issued.
Fresh(name, contentType, content) ==
    [pc |-> "received", name |-> name, contentType |-> contentType,
     content |-> content, codec |-> "unset", dimensions |-> NoDimensions,
     reduce |-> 0, calls |-> <<>>, transforms |-> <<>>, uploads |-> <<>>,
     uncaught |-> FALSE]

Idle == [Fresh(<<>>, <<>>, <<>>) EXCEPT !.pc = "idle"]

Goto(r, pc) == [r EXCEPT !.pc = pc]

Call(r, op, kind, ev) ==
    [r EXCEPT !.calls = Append(@, [op |-> op, kind |-> kind, ev |-> ev])]

\* tempLocalFile
TempLocalFile(r) == TempPath(r.name)

(***************************************************************************)
(* The calls the handler issues                                            *)
(***************************************************************************)

\* A transform is issued: its arguments are recorded (key is the store key
\* the handler computed for the artifact) and the handler awaits it at pc.
StartTransform(r, t, pc) ==
    Goto([Call(r, "transform", t.kind, "start")
             EXCEPT !.transforms = Append(@, t)], pc)

\* bucket.upload is issued with options u and awaited at pc.
StartUpload(r, u, pc) ==
    Goto([Call(r, "upload", u.kind, "start") EXCEPT !.uploads = Append(@, u)], pc)

\* ffprobe is issued (getCodec or getDimentions) and awaited at pc.
StartProbe(r, pc) == Goto(Call(r, "ffprobe", "Input", "start"), pc)

\* spawn('convert', [tempLocalFile, '-thumbnail', `${W}x${H}>`, tempLocalThumbFile])
ThumbnailTransform(v, r) ==
    [kind |-> "Thumbnail", tool |-> "convert", input |-> TempLocalFile(r),
     output |-> TempPath(ThumbFilePath(r.name)), key |-> ThumbFilePath(r.name),
     args |-> <<THUMB_MAX_WIDTH(v), THUMB_MAX_HEIGHT(v)>>, shrinkOnly |-> TRUE]

\* convertFile(tempLocalFile, targetTempFilePath, '100%'); part_000 passes no
\* size, which leaves the size of the source.
TranscodeTransform(v, r) ==
    [kind |-> "Transcode", tool |-> "ffmpeg", input |-> TempLocalFile(r),
     output |-> TempPath(Mp4FilePath(v, r.name)), key |-> Mp4FilePath(v, r.name),
     args |-> IF v = "index" THEN <<100>> ELSE <<>>, shrinkOnly |-> FALSE]

\* convertFile(tempLocalFile, targetTempFilePathThumb, reduce + '%')
PreviewTransform(r, reduce) ==
    [kind |-> "Preview", tool |-> "ffmpeg", input |-> TempLocalFile(r),
     output |-> TempPath(Mp4FilePathThumb(r.name)), key |-> Mp4FilePathThumb(r.name),
     args |-> <<reduce>>, shrinkOnly |-> FALSE]

\* createPosterFromVideo(tempLocalFile, localPath): .seek(1).frames(1)
PosterTransform(r) ==
    [kind |-> "Poster", tool |-> "ffmpeg", input |-> TempLocalFile(r),
     output |-> TempPath(PosterRemotePath(r.name)), key |-> PosterRemotePath(r.name),
     args |-> <<1, 1>>, shrinkOnly |-> FALSE]

\* The options of the thumbnail upload.
ThumbnailUpload(r) ==
    [kind |-> "Thumbnail", file |-> TempPath(ThumbFilePath(r.name)),
     destination |-> ThumbFilePath(r.name), public |-> TRUE,
     contentType |-> r.contentType, cacheControl |-> CacheOneHour, gzip |-> FALSE]

\* The options of the two mp4 uploads (transcode and preview).
Mp4Upload(kind, key) ==
    [kind |-> kind, file |-> TempPath(key), destination |-> key, public |-> TRUE,
     contentType |-> <<>>, cacheControl |-> CacheOneYear, gzip |-> TRUE]

\* Faulty variant of PosterUpload: the poster is uploaded public-read.
PosterUpload_Public(r) ==
    [kind |-> "Poster", file |-> TempPath(PosterRemotePath(r.name)),
     destination |-> PosterRemotePath(r.name), public |-> TRUE,
     contentType |-> <<>>, cacheControl |-> CacheOneYear, gzip |-> TRUE]

\* The options of the poster upload: no `public`.
PosterUpload(r) ==
    [kind |-> "Poster", file |-> TempPath(PosterRemotePath(r.name)),
     destination |-> PosterRemotePath(r.name), public |-> FALSE,
     contentType |-> <<>>, cacheControl |-> CacheOneYear, gzip |-> TRUE]

\* The upload that follows the successful transform t.
UploadAfter(r, t) ==
    IF t.kind = "Thumbnail" THEN ThumbnailUpload(r)
    ELSE IF t.kind = "Poster" THEN PosterUpload(r)
    ELSE Mp4Upload(t.kind, t.key)

\* fs.unlinkSync(path) in the situation st = [r, files, threw]: the possible
\* situations after it. It removes an existing file, or throws: ENOENT when
\* the file is not there, another error when the file system refuses. Once
\* an exception is thrown the statements that follow do not run.
UnlinkSync(st, path, kind) ==
    IF st.threw THEN {st}
    ELSE {[r |-> Call(st.r, "unlink", kind, "ok"), files |-> st.files \ {path},
           threw |-> FALSE] : x \in {y \in {path} : y \in st.files}}
         \cup
         {[r |-> Call(st.r, "unlink", kind,
                      IF path \in st.files THEN "error" ELSE "enoent"),
           files |-> st.files, threw |-> TRUE]}

Running(r, files) == [r |-> r, files |-> files, threw |-> FALSE]

\* Faulty variant of StartPoster: createPosterFromVideo is not awaited, the
\* upload of localPath is issued at once.
StartPoster_NotAwaited(r) ==
    StartUpload(Call([r EXCEPT !.transforms = Append(@, PosterTransform(r))],
                     "transform", "Poster", "start"),
                PosterUpload(r), "posterUpload")

\* createPoster up to its first await.
StartPoster(r) == StartTransform(r, PosterTransform(r), "poster")

(***************************************************************************)
(* The inbound objects of the model                                        *)
(***************************************************************************)

\* Bounds: the depth of the directory of a key, and the number of streams
\* of a probed file.
MaxDepth == 1
MaxStreams == 2

DirName == <<"d", ".", "d", "/">>

RECURSIVE DirOfDepth(_)
DirOfDepth(n) == IF n = 0 THEN <<>> ELSE DirName \o DirOfDepth(n - 1)

NamePrefixes == {<<>>, THUMB_PREFIX, <<"T", "H", "U", "M", "B", "_">>}
NameSuffixes == {<<>>, <<"_", "o", "u", "t", "p", "u", "t">>,
                 <<"_", "p", "o", "s", "t", "e", "r">>}
NameExtensions == {<<>>, <<".", "m", "p", "4">>, <<".", "j", "p", "g">>,
                   <<".", "M", "P", "4">>, <<".">>}

\* Object keys: an optional directory (with a dot in its name), and a base
\* name with or without a thumbnail prefix, a derived suffix, an extension.
Keys ==
    {DirOfDepth(n) \o pre \o <<"a">> \o suf \o ext :
        n \in 0..MaxDepth, pre \in NamePrefixes,
        suf \in NameSuffixes, ext \in NameExtensions}

ContentTypes ==
    {<<"i", "m", "a", "g", "e", "/", "p", "n", "g">>,
     <<"I", "M", "A", "G", "E", "/", "P", "N", "G">>,
     <<"v", "i", "d", "e", "o", "/", "m", "p", "4">>,
     <<"V", "i", "d", "e", "o", "/", "M", "P", "4">>,
     <<"t", "e", "x", "t", "/", "p", "l", "a", "i", "n">>,
     <<"i", "m", "a", "g", "e">>,
     <<>>}

Codecs == {"aac", "h264", "mjpeg"}

\* The codecs of the streams of a file, in order.
CodecLists == UNION {[1..n -> Codecs] : n \in 0..MaxStreams}

\* Sizes around the thumbnail box and the preview thresholds, and around
\* the sizes where the preview scale falls below 1%.
Widths == {1, THUMB_MAX_WIDTH("index") - 1, THUMB_MAX_WIDTH("index"),
           THUMB_MAX_WIDTH("index") + 1, PreviewMaxWidth - 1, PreviewMaxWidth,
           PreviewMaxWidth + 1, 640, 2 * PreviewMaxWidth, 1280,
           100 * PreviewMaxWidth, 100 * PreviewMaxWidth + 1}
Heights == {1, THUMB_MAX_HEIGHT("index") - 1, THUMB_MAX_HEIGHT("index"),
            THUMB_MAX_HEIGHT("index") + 1, PreviewMaxHeight - 1, PreviewMaxHeight,
            PreviewMaxHeight + 1, 720, 2 * PreviewMaxHeight, 1080,
            100 * PreviewMaxHeight, 100 * PreviewMaxHeight + 1}
SampleSizes == {<<THUMB_MAX_WIDTH("index") - 1, THUMB_MAX_HEIGHT("index") - 1>>,
                <<PreviewMaxWidth, PreviewMaxHeight>>,
                <<2 * PreviewMaxWidth, 2 * PreviewMaxHeight>>}

\* What ffprobe reports for a file: its streams, the video streams of one
\* file having one size.
Content(codecs, w, h) == [k \in 1..Len(codecs) |-> Stream(codecs[k], w, h)]

\* Every list of streams with a few sizes, and every size with one stream.
Contents ==
    {Content(codecs, wh[1], wh[2]) : codecs \in CodecLists, wh \in SampleSizes}
    \cup {Content(<<c>>, w, h) : c \in {"h264", "mjpeg"}, w \in Widths, h \in Heights}

\* A few representative keys and contents; the model takes every key with
\* a representative content and every content with a representative key.
SampleKeys ==
    {<<"a", ".", "m", "p", "4">>, <<"a", ".", "j", "p", "g">>, <<"a">>,
     DirName \o <<"a", ".", "j", "p", "g">>}
SampleContents ==
    {<<>>,
     Content(<<"aac">>, 2 * PreviewMaxWidth, 2 * PreviewMaxHeight),
     Content(<<"h264">>, 2 * PreviewMaxWidth, 2 * PreviewMaxHeight),
     Content(<<"mjpeg">>, 2 * PreviewMaxWidth, 2 * PreviewMaxHeight),
     Content(<<"mjpeg">>, PreviewMaxWidth, PreviewMaxHeight)}

Objects ==
    {[name |-> k, content |-> c] : k \in Keys, c \in SampleContents}
    \cup {[name |-> k, content |-> c] : k \in SampleKeys, c \in Contents}

(***************************************************************************)
(* Initial state: one file is deployed, the scratch directory is empty,    *)
(* and one object-finalized event is delivered to invocation 1.            *)
(***************************************************************************)

Init ==
    /\ variant \in Variants
    /\ localFiles = {}
    /\ \E o \in Objects, ct \in ContentTypes :
          inv = [i \in Ids |-> IF i = 1 THEN Fresh(o.name, ct, o.content) ELSE Idle]

(***************************************************************************)
(* The handler generateThumbnail, one action per continuation              *)
(***************************************************************************)

Set(i, r) == inv' = [inv EXCEPT ![i] = r]

\* The event is delivered: the handler runs to its first await. An object
\* that is neither image nor video makes it return at once.
Trigger(i) ==
    /\ inv[i].pc = "received"
    /\ Set(i, IF IsEligible(variant, inv[i].contentType)
              THEN Goto(Call(inv[i], "mkdirp", "Input", "start"), "mkdirp")
              ELSE Goto(inv[i], "done"))
    /\ UNCHANGED <<variant, localFiles>>

\* await mkdirp(tempLocalDir), then file.download is issued.
MkdirpSettled(i) ==
    /\ inv[i].pc = "mkdirp"
    /\ \/ Set(i, Goto(Call(Call(inv[i], "mkdirp", "Input", "ok"),
                           "download", "Input", "start"), "download"))
       \/ Set(i, Goto(Call(inv[i], "mkdirp", "Input", "error"), "failed"))
    /\ UNCHANGED <<variant, localFiles>>

\* The statements that follow the download, up to the next await or return.
AfterDownload(v, r) ==
    IF IsImageType(v, r.contentType)
    THEN IF IsDerivedImageName(v, Basename(r.name)) THEN Goto(r, "done")
         ELSE IF v = "index" THEN StartProbe(r, "imageDimensions")
         ELSE StartTransform(r, ThumbnailTransform(v, r), "convert")
    ELSE IF IsVideoType(v, r.contentType)
    THEN IF v = "index" /\ IsDerivedVideoName(v, Basename(r.name)) THEN Goto(r, "done")
         ELSE StartProbe(r, "codec")
    ELSE Goto(r, "done")

\* Faulty variant of DownloadSettled: a failed download is issued once more.
DownloadSettled_RetryOnce(i) ==
    /\ inv[i].pc = "download"
    /\ \/ /\ localFiles' = localFiles \cup {TempLocalFile(inv[i])}
          /\ Set(i, AfterDownload(variant, Call(inv[i], "download", "Input", "ok")))
       \/ /\ localFiles' = localFiles
          /\ Set(i, IF \E k \in DOMAIN inv[i].calls :
                         inv[i].calls[k] = [op |-> "download", kind |-> "Input",
                                            ev |-> "error"]
                    THEN Goto(Call(inv[i], "download", "Input", "error"), "failed")
                    ELSE Call(Call(inv[i], "download", "Input", "error"),
                              "download", "Input", "start"))
    /\ UNCHANGED variant

\* await file.download({destination: tempLocalFile}). A failed download may
\* leave a partial file.
DownloadSettled(i) ==
    /\ inv[i].pc = "download"
    /\ \/ /\ localFiles' = localFiles \cup {TempLocalFile(inv[i])}
          /\ Set(i, AfterDownload(variant, Call(inv[i], "download", "Input", "ok")))
       \/ /\ \E partial \in BOOLEAN :
                localFiles' = IF partial THEN localFiles \cup {TempLocalFile(inv[i])}
                              ELSE localFiles
          /\ Set(i, Goto(Call(inv[i], "download", "Input", "error"), "failed"))
    /\ UNCHANGED variant

\* The ffprobe callback of getDimentions with err set: rej(err) rejects the
\* promise, and the statement after the `if` then reads metadata.streams of
\* an undefined metadata, which throws inside the callback.
DimentionsError(r) ==
    Goto([Call(r, "ffprobe", "Input", "error") EXCEPT !.uncaught = TRUE], "failed")

\* The ffprobe callback of getDimentions without err, on an empty stream
\* list: the TypeError is thrown inside the callback and the promise is
\* never settled.
DimentionsThrow(r) ==
    Goto([Call(r, "ffprobe", "Input", "ok") EXCEPT !.uncaught = TRUE], "pending")

\* The image branch after getDimentions resolved with d.
AfterImageDimensions(v, r, d) ==
    LET r1 == [Call(r, "ffprobe", "Input", "ok") EXCEPT !.dimensions = d]
    IN  IF BelowThumbBox(v, d) THEN Goto(r1, "done")
        ELSE StartTransform(r1, ThumbnailTransform(v, r1), "convert")

\* var picDimensions = await getDimentions(tempLocalFile)
ImageDimensionsSettled(i) ==
    /\ inv[i].pc = "imageDimensions"
    /\ \/ /\ TempLocalFile(inv[i]) \in localFiles
          /\ Set(i, LET d == GetDimentions(inv[i].content)
                    IN  IF d.threw THEN DimentionsThrow(inv[i])
                        ELSE AfterImageDimensions(variant, inv[i], d))
       \/ Set(i, DimentionsError(inv[i]))
    /\ UNCHANGED <<variant, localFiles>>

\* Faulty variant of TransformSettled: the 'error' event resolves the
\* promise too, so the handler goes on to the upload.
TransformSettled_ErrorResolves(i, at, then) ==
    /\ inv[i].pc = at
    /\ LET r == inv[i]
           t == r.transforms[Len(r.transforms)]
       IN  \/ /\ t.input \in localFiles
              /\ localFiles' = localFiles \cup {t.output}
              /\ Set(i, StartUpload(Call(r, "transform", t.kind, "ok"),
                                    UploadAfter(r, t), then))
           \/ /\ \E partial \in BOOLEAN :
                    localFiles' = IF partial THEN localFiles \cup {t.output}
                                  ELSE localFiles
              /\ Set(i, StartUpload(Call(r, "transform", t.kind, "error"),
                                    UploadAfter(r, t), then))
    /\ UNCHANGED variant

\* An awaited transform (spawn convert, convertFile, createPosterFromVideo)
\* ends: on 'end' the output file exists and the upload of it is issued,
\* awaited at `then`; on 'error' the promise is rejected, and the tool may
\* have left a partial output file. The tool cannot end well without its
\* input file.
TransformSettled(i, at, then) ==
    /\ inv[i].pc = at
    /\ LET r == inv[i]
           t == r.transforms[Len(r.transforms)]
       IN  \/ /\ t.input \in localFiles
              /\ localFiles' = localFiles \cup {t.output}
              /\ Set(i, StartUpload(Call(r, "transform", t.kind, "ok"),
                                    UploadAfter(r, t), then))
           \/ /\ \E partial \in BOOLEAN :
                    localFiles' = IF partial THEN localFiles \cup {t.output}
                                  ELSE localFiles
              /\ Set(i, Goto(Call(r, "transform", t.kind, "error"), "failed"))
    /\ UNCHANGED variant

\* await spawn('convert', ...)
ConvertSettled(i) == TransformSettled(i, "convert", "thumbUpload")

\* await convertFile(tempLocalFile, targetTempFilePath, '100%')
TranscodeSettled(i) == TransformSettled(i, "transcode", "transcodeUpload")

\* await createPosterFromVideo(tempLocalFile, localPath)
PosterSettled(i) == TransformSettled(i, "poster", "posterUpload")

\* await convertFile(tempLocalFile, targetTempFilePathThumb, reduce + '%')
PreviewSettled(i) == TransformSettled(i, "preview", "previewUpload")

\* The end of the handler after its last unlinkSync calls.
Finish(st) == IF st.threw THEN Goto(st.r, "failed") ELSE Goto(st.r, "done")

\* await bucket.upload(tempLocalThumbFile, ...), then the two unlinkSync.
ThumbUploadSettled(i) ==
    /\ inv[i].pc = "thumbUpload"
    /\ LET r == inv[i]
           u == r.uploads[Len(r.uploads)]
       IN  \/ /\ u.file \in localFiles
              /\ \E s1 \in UnlinkSync(Running(Call(r, "upload", u.kind, "ok"), localFiles),
                                      u.file, u.kind) :
                 \E s2 \in UnlinkSync(s1, TempLocalFile(r), "Input") :
                    /\ Set(i, Finish(s2))
                    /\ localFiles' = s2.files
           \/ /\ Set(i, Goto(Call(r, "upload", u.kind, "error"), "failed"))
              /\ UNCHANGED localFiles
    /\ UNCHANGED variant

\* Faulty variant of AfterCodec: index.js transcodes whatever the codec.
AfterCodec_NoGate(v, r, codec) ==
    LET r1 == [Call(r, "ffprobe", "Input", "ok") EXCEPT !.codec = codec]
    IN  IF v = "index"
        THEN StartTransform(r1, TranscodeTransform(v, r1), "transcode")
        ELSE IF codec = "h264" THEN Goto(r1, "done")
             ELSE IF IsDerivedVideoName(v, Basename(r1.name)) THEN Goto(r1, "done")
             ELSE StartTransform(r1, TranscodeTransform(v, r1), "transcode")

\* The video branch after getCodec resolved with codec.
AfterCodec(v, r, codec) ==
    LET r1 == [Call(r, "ffprobe", "Input", "ok") EXCEPT !.codec = codec]
    IN  IF v = "index"
        THEN IF codec # "h264"
             THEN StartTransform(r1, TranscodeTransform(v, r1), "transcode")
             ELSE StartPoster(r1)
        ELSE IF codec = "h264" THEN Goto(r1, "done")
             ELSE IF IsDerivedVideoName(v, Basename(r1.name)) THEN Goto(r1, "done")
             ELSE StartTransform(r1, TranscodeTransform(v, r1), "transcode")

\* var codec = await getCodec(tempLocalFile). Without a video stream the
\* promise of getCodec is never settled.
CodecSettled(i) ==
    /\ inv[i].pc = "codec"
    /\ \/ /\ TempLocalFile(inv[i]) \in localFiles
          /\ Set(i, LET p == GetCodec(inv[i].content)
                    IN  IF p.settled THEN AfterCodec(variant, inv[i], p.value)
                        ELSE Goto(Call(inv[i], "ffprobe", "Input", "ok"), "pending"))
       \/ Set(i, Goto(Call(inv[i], "ffprobe", "Input", "error"), "failed"))
    /\ UNCHANGED <<variant, localFiles>>

\* After the transcode upload and unlinkSync(targetTempFilePath): index.js
\* goes on to createPoster, part_000 unlinks the input and returns.
AfterTranscodeUnlink(v, st) ==
    IF st.threw THEN {[st EXCEPT !.r = Goto(st.r, "failed")]}
    ELSE IF v = "index" THEN {[st EXCEPT !.r = StartPoster(st.r)]}
    ELSE {[s EXCEPT !.r = Finish(s)] : s \in UnlinkSync(st, TempLocalFile(st.r), "Input")}

\* await bucket.upload(targetTempFilePath, ...)
TranscodeUploadSettled(i) ==
    /\ inv[i].pc = "transcodeUpload"
    /\ LET r == inv[i]
           u == r.uploads[Len(r.uploads)]
       IN  \/ /\ u.file \in localFiles
              /\ \E s1 \in UnlinkSync(Running(Call(r, "upload", u.kind, "ok"), localFiles),
                                      u.file, u.kind) :
                 \E s2 \in AfterTranscodeUnlink(variant, s1) :
                    /\ Set(i, s2.r)
                    /\ localFiles' = s2.files
           \/ /\ Set(i, Goto(Call(r, "upload", u.kind, "error"), "failed"))
              /\ UNCHANGED localFiles
    /\ UNCHANGED variant

\* await bucket.upload(localPath, ...) of createPoster, unlinkSync(localPath),
\* and back in the handler getDimentions is issued.
PosterUploadSettled(i) ==
    /\ inv[i].pc = "posterUpload"
    /\ LET r == inv[i]
           u == r.uploads[Len(r.uploads)]
       IN  \/ /\ u.file \in localFiles
              /\ \E s1 \in UnlinkSync(Running(Call(r, "upload", u.kind, "ok"), localFiles),
                                      u.file, u.kind) :
                    /\ Set(i, IF s1.threw THEN Goto(s1.r, "failed")
                              ELSE StartProbe(s1.r, "videoDimensions"))
                    /\ localFiles' = s1.files
           \/ /\ Set(i, Goto(Call(r, "upload", u.kind, "error"), "failed"))
              /\ UNCHANGED localFiles
    /\ UNCHANGED variant

\* Faulty variant of AfterVideoDimensions: without a preview the handler
\* still unlinks targetTempFilePathThumb before the input.
AfterVideoDimensions_UnlinksPreview(r, d, files) ==
    LET r1 == [Call(r, "ffprobe", "Input", "ok")
                  EXCEPT !.dimensions = d, !.reduce = Reduce(d)]
    IN  IF r1.reduce > 0
        THEN {Running(StartTransform(r1, PreviewTransform(r1, r1.reduce), "preview"), files)}
        ELSE {[s EXCEPT !.r = Finish(s)] :
                 s \in UNION {UnlinkSync(s0, TempLocalFile(r1), "Input") :
                                 s0 \in UnlinkSync(Running(r1, files),
                                                   TempPath(Mp4FilePathThumb(r1.name)),
                                                   "Preview")}}

\* The video branch after getDimentions resolved with d: the preview scale
\* is computed; a positive scale issues the preview transform, otherwise
\* the input is unlinked and the handler returns.
AfterVideoDimensions(r, d, files) ==
    LET r1 == [Call(r, "ffprobe", "Input", "ok")
                  EXCEPT !.dimensions = d, !.reduce = Reduce(d)]
    IN  IF r1.reduce > 0
        THEN {Running(StartTransform(r1, PreviewTransform(r1, r1.reduce), "preview"), files)}
        ELSE {[s EXCEPT !.r = Finish(s)] :
                 s \in UnlinkSync(Running(r1, files), TempLocalFile(r1), "Input")}

\* var dimensions = await getDimentions(tempLocalFile)
VideoDimensionsSettled(i) ==
    /\ inv[i].pc = "videoDimensions"
    /\ \/ /\ TempLocalFile(inv[i]) \in localFiles
          /\ LET d == GetDimentions(inv[i].content)
             IN  IF d.threw
                 THEN Set(i, DimentionsThrow(inv[i])) /\ UNCHANGED localFiles
                 ELSE \E s \in AfterVideoDimensions(inv[i], d, localFiles) :
                         Set(i, s.r) /\ localFiles' = s.files
       \/ Set(i, DimentionsError(inv[i])) /\ UNCHANGED localFiles
    /\ UNCHANGED variant

\* await bucket.upload(targetTempFilePathThumb, ...), then the two unlinkSync.
PreviewUploadSettled(i) ==
    /\ inv[i].pc = "previewUpload"
    /\ LET r == inv[i]
           u == r.uploads[Len(r.uploads)]
       IN  \/ /\ u.file \in localFiles
              /\ \E s1 \in UnlinkSync(Running(Call(r, "upload", u.kind, "ok"), localFiles),
                                      u.file, u.kind) :
                 \E s2 \in UnlinkSync(s1, TempLocalFile(r), "Input") :
                    /\ Set(i, Finish(s2))
                    /\ localFiles' = s2.files
           \/ /\ Set(i, Goto(Call(r, "upload", u.kind, "error"), "failed"))
              /\ UNCHANGED localFiles
    /\ UNCHANGED variant

Next ==
    \E i \in Ids :
        \/ Trigger(i)
        \/ MkdirpSettled(i)
        \/ DownloadSettled(i)
        \/ ImageDimensionsSettled(i)
        \/ ConvertSettled(i)
        \/ ThumbUploadSettled(i)
        \/ CodecSettled(i)
        \/ TranscodeSettled(i)
        \/ TranscodeUploadSettled(i)
        \/ PosterSettled(i)
        \/ PosterUploadSettled(i)
        \/ VideoDimensionsSettled(i)
        \/ PreviewSettled(i)
        \/ PreviewUploadSettled(i)

Spec == Init /\ [][Next]_vars

(***************************************************************************)
(* Vocabulary of the properties                                            *)
(***************************************************************************)

Active == {i \in Ids : inv[i].pc # "idle"}

\* The calls of r with the given op and event.
CallsOf(r, op, ev) == {k \in DOMAIN r.calls : r.calls[k].op = op /\ r.calls[k].ev = ev}

Has(r, op, kind, ev) ==
    \E k \in DOMAIN r.calls : r.calls[k] = [op |-> op, kind |-> kind, ev |-> ev]

TransformsOf(r, kind) == {k \in DOMAIN r.transforms : r.transforms[k].kind = kind}

Kinds == {"Thumbnail", "Transcode", "Preview", "Poster"}

\* The content type of the object is image/... or video/... whatever the
\* letter case.
ImageNoCase(r) == StartsWith(ToLowerCase(r.contentType), ImageSlash)
VideoNoCase(r) == StartsWith(ToLowerCase(r.contentType), VideoSlash)

\* The handler returned or was rejected.
Returned(r) == r.pc \in {"done", "failed"}

\* getCodec resolved: the codec is known to the handler.
CodecKnown(r) == r.codec # "unset"

\* getDimentions resolved (for the image, or after the poster for a video).
DimensionsKnown(r) ==
    /\ ~ r.uncaught
    /\ \E k \in CallsOf(r, "ffprobe", "ok") :
          IF VideoNoCase(r) THEN \E m \in CallsOf(r, "upload", "ok") : m < k ELSE TRUE

(***************************************************************************)
(* C1: loop-freedom. Every key index.js computes for an artifact is        *)
(* recognized as already derived when it comes back as a trigger with the  *)
(* matching content type: an image name for Thumbnail and Poster, a video  *)
(* name for Transcode and Preview.                                         *)
(***************************************************************************)
RecognizedAsDerived(v, kind, key) ==
    IF kind \in {"Thumbnail", "Poster"}
    THEN IsDerivedImageName(v, Basename(key))
    ELSE IsDerivedVideoName(v, Basename(key))

C1_LoopFreedom ==
    \A i \in Active :
        variant = "index" =>
            /\ \A k \in DOMAIN inv[i].transforms :
                  RecognizedAsDerived(variant, inv[i].transforms[k].kind,
                                      inv[i].transforms[k].key)
            /\ \A k \in DOMAIN inv[i].uploads :
                  RecognizedAsDerived(variant, inv[i].uploads[k].kind,
                                      inv[i].uploads[k].destination)

(***************************************************************************)
(* C2: cleanup guarantee. When an invocation of index.js that downloaded   *)
(* its input has returned (or was rejected), the scratch path of the input *)
(* does not exist.                                                         *)
(***************************************************************************)
C2_InputRemovedOnReturn ==
    \A i \in Active :
        (variant = "index" /\ Returned(inv[i]) /\ Has(inv[i], "download", "Input", "ok"))
            => TempLocalFile(inv[i]) \notin localFiles

(***************************************************************************)
(* C3: eligibility. A content type that starts, whatever the letter case,  *)
(* with neither image/ nor video/ causes no download, probe, transform or  *)
(* upload; a content type that does is treated as eligible: the handler    *)
(* goes on to the download and returns only after having downloaded.       *)
(***************************************************************************)
C3_EligibilityNoCase ==
    \A i \in Active :
        LET r == inv[i]
        IN  IF ImageNoCase(r) \/ VideoNoCase(r)
            THEN /\ r.pc \notin {"received", "failed"} => Has(r, "mkdirp", "Input", "start")
                 /\ r.pc = "done" => Has(r, "download", "Input", "ok")
            ELSE r.calls = <<>> /\ r.transforms = <<>> /\ r.uploads = <<>>

(***************************************************************************)
(* C4: an object that is already derived -- for index.js an image whose    *)
(* base name, whatever the letter case, starts with thumb_ or ends with    *)
(* _poster.jpg; for both files a video whose base name ends with           *)
(* _output.mp4 -- causes at most one download, no transform and no upload. *)
(***************************************************************************)
AlreadyDerived(v, r) ==
    \/ /\ v = "index"
       /\ ImageNoCase(r)
       /\ \/ StartsWith(ToLowerCase(Basename(r.name)), THUMB_PREFIX)
          \/ EndsWith(ToLowerCase(Basename(r.name)), PosterSuffix)
    \/ /\ VideoNoCase(r)
       /\ EndsWith(Basename(r.name), OutputSuffix)

FreshVideo(v, r) ==
    IsVideoType(v, r.contentType) /\ ~ IsDerivedVideoName(v, Basename(r.name))

AtMostAxisValue(s, d, t) == IF d > t THEN s * d <= 100 * d - (d - t) * 100 ELSE s <= 0
AboveAxisValue(s, d, t) == IF d > t THEN s * d > 100 * d - (d - t) * 100 ELSE s > 0

IsFloorOfSmaller(s, w, h) ==
    /\ AtMostAxisValue(s, h, 480) /\ AtMostAxisValue(s, w, 425)
    /\ AboveAxisValue(s + 1, h, 480) \/ AboveAxisValue(s + 1, w, 425)

C6_PreviewScale ==
    \A i \in Active :
        LET r == inv[i]
            w == r.dimensions.width.v
            h == r.dimensions.height.v
        IN  (/\ variant = "index" /\ VideoNoCase(r) /\ DimensionsKnown(r)
             /\ r.dimensions.width.def /\ r.dimensions.height.def) =>
               /\ IsFloorOfSmaller(r.reduce, w, h)
               /\ (TransformsOf(r, "Preview") # {}) <=> (r.reduce > 0)
               /\ \A k \in TransformsOf(r, "Preview") : r.transforms[k].args = <<r.reduce>>
               /\ (h = 960 /\ w = 425) => (r.reduce = 0 /\ TransformsOf(r, "Preview") = {})
               /\ (h = 960 /\ w = 850) => (r.reduce = 50 /\ TransformsOf(r, "Preview") # {})

\* A 850 x 960 video has its preview requested at 50%.
C6_Witness ==
    \E i \in Active :
        /\ variant = "index"
        /\ inv[i].dimensions.width = Num(850) /\ inv[i].dimensions.height = Num(960)
        /\ \E k \in TransformsOf(inv[i], "Preview") : inv[i].transforms[k].args = <<50>>

(***************************************************************************)
(* C7: thumbnail gate. For an image that index.js does not take as derived *)
(* and whose size (w, h) was probed: with w and h both below the box there *)
(* is no transform and no upload; otherwise exactly one thumbnail is       *)
(* requested, with the box and shrink-only, and a handler that returned    *)
(* has uploaded exactly that thumbnail to the thumb_-prefixed name in the  *)
(* directory of the input.                                                 *)
(***************************************************************************)
C7_ThumbnailGate ==
    \A i \in Active :
        LET r == inv[i]
            base == Basename(r.name)
        IN  (/\ variant = "index" /\ ImageNoCase(r)
             /\ ~ IsDerivedImageName(variant, base) /\ DimensionsKnown(r)) =>
               IF /\ r.dimensions.width.def /\ r.dimensions.width.v < 300
                  /\ r.dimensions.height.def /\ r.dimensions.height.v < 300
               THEN r.transforms = <<>> /\ r.uploads = <<>>
               ELSE /\ Len(r.transforms) = 1
                    /\ r.transforms[1].kind = "Thumbnail"
                    /\ r.transforms[1].args = <<300, 300>>
                    /\ r.transforms[1].shrinkOnly
                    /\ Len(r.uploads) <= 1
                    /\ \A k \in DOMAIN r.uploads :
                          /\ r.uploads[k].kind = "Thumbnail"
                          /\ Basename(r.uploads[k].destination) = THUMB_PREFIX \o base
                          /\ Dirname(r.uploads[k].destination) = Dirname(r.name)
                          /\ r.uploads[k].file = r.transforms[1].output
                    /\ r.pc = "done" => Has(r, "upload", "Thumbnail", "ok")

\* An image in a directory, as wide as the box and lower than it, has its
\* thumbnail uploaded.
C7_Witness ==
    \E i \in Active :
        /\ variant = "index" /\ ImageNoCase(inv[i])
        /\ Slashes(inv[i].name) # {}
        /\ inv[i].dimensions.width = Num(300) /\ inv[i].dimensions.height = Num(299)
        /\ inv[i].pc = "done"
        /\ Has(inv[i], "upload", "Thumbnail", "ok")

(***************************************************************************)
(* C8: upload metadata. Every upload issued carries the metadata of its    *)
(* kind: Thumbnail public-read, one hour, the content type of the object;  *)
(* Transcode and Preview public-read, one year, gzip; Poster not           *)
(* public-read, one year.                                                  *)
(***************************************************************************)
C8_UploadMetadata ==
    \A i \in Active :
        \A k \in DOMAIN inv[i].uploads :
            LET u == inv[i].uploads[k]
            IN  /\ u.kind \in Kinds
                /\ u.kind = "Thumbnail" =>
                      /\ u.public
                      /\ u.cacheControl = "public,max-age=3600"
                      /\ u.contentType = inv[i].contentType
                /\ u.kind \in {"Transcode", "Preview"} =>
                      /\ u.public
                      /\ u.cacheControl = "public, max-age=31536000"
                      /\ u.gzip
                /\ u.kind = "Poster" =>
                      /\ ~ u.public
                      /\ u.cacheControl = "public, max-age=31536000"

\* One invocation has uploaded a Transcode, a Poster and a Preview.
C8_Witness ==
    \E i \in Active :
        /\ Has(inv[i], "upload", "Transcode", "ok")
        /\ Has(inv[i], "upload", "Poster", "ok")
        /\ Has(inv[i], "upload", "Preview", "ok")

(***************************************************************************)
(* C9: codec probing. When getCodec's ffprobe succeeded, the codec the     *)
(* handler receives is the codec name of the first stream of type video;   *)
(* when the file has streams but none of type video, the probe completes   *)
(* with the codec null.                                                    *)
(***************************************************************************)
VideoStreams(streams) == {k \in DOMAIN streams : streams[k].codec_type = "video"}

\* The ffprobe of getCodec has called back without error.
CodecProbed(r) ==
    /\ VideoNoCase(r)
    /\ CallsOf(r, "ffprobe", "ok") # {}

C9_CodecProbe ==
    \A i \in Active :
        LET r == inv[i]
            vs == VideoStreams(r.content)
        IN  CodecProbed(r) =>
               /\ vs # {} =>
                     \E k \in vs : /\ \A m \in vs : k <= m
                                   /\ r.codec = r.content[k].codec_name
               /\ (r.content # <<>> /\ vs = {}) =>
                     r.codec = "null" /\ r.pc # "pending"

(***************************************************************************)
(* C10: a failure aborts. An error of the download, of a probe, of a       *)
(* transform or of an upload is the last call of its invocation: nothing   *)
(* is started after it, and the invocation ends as failed.                 *)
(***************************************************************************)
FailureOps == {"download", "ffprobe", "transform", "upload"}

C10_FailureAborts ==
    \A i \in Active :
        \A k \in DOMAIN inv[i].calls :
            (inv[i].calls[k].op \in FailureOps /\ inv[i].calls[k].ev = "error") =>
                /\ k = Len(inv[i].calls)
                /\ inv[i].pc = "failed"

\* The transcode of index.js failed: the invocation is rejected with no
\* poster and no preview requested.
C10_Witness ==
    \E i \in Active :
        /\ variant = "index"
        /\ Has(inv[i], "transform", "Transcode", "error")
        /\ inv[i].pc = "failed"
        /\ TransformsOf(inv[i], "Poster") = {}
        /\ TransformsOf(inv[i], "Preview") = {}

(***************************************************************************)
(* Two concurrent invocations: the runtime delivers two object-finalized   *)
(* events for two different keys to the same instance, whose scratch       *)
(* directory /tmp the two invocations share. Their continuations           *)
(* interleave at the awaits.                                               *)
(***************************************************************************)

PairKeys ==
    {<<"a", ".", "m", "p", "4">>, <<"a", ".", "M", "P", "4">>,
     <<"a", ".", "j", "p", "g">>}

PairContentTypes ==
    {<<"i", "m", "a", "g", "e", "/", "p", "n", "g">>,
     <<"v", "i", "d", "e", "o", "/", "m", "p", "4">>}

PairContent == Content(<<"mjpeg">>, 2 * PreviewMaxWidth, 2 * PreviewMaxHeight)

InitPair ==
    /\ variant \in Variants
    /\ localFiles = {}
    /\ \E k1 \in PairKeys :
       \E k2 \in PairKeys \ {k1} :
       \E ct1 \in PairContentTypes, ct2 \in PairContentTypes :
          inv = [i \in Ids |-> IF i = 1 THEN Fresh(k1, ct1, PairContent)
                               ELSE Fresh(k2, ct2, PairContent)]

SpecPair == InitPair /\ [][Next]_vars

(***************************************************************************)
(* C11: independence of concurrent invocations. While two invocations of   *)
(* index.js on different keys are both running, no scratch path that one   *)
(* of them has written, read or deleted (the download path, the input and  *)
(* output of its transforms, the file of its uploads) is a scratch path of *)
(* the other.                                                              *)
(***************************************************************************)
ScratchPaths(r) ==
    (IF CallsOf(r, "download", "start") # {} THEN {TempLocalFile(r)} ELSE {})
    \cup {r.transforms[k].input : k \in DOMAIN r.transforms}
    \cup {r.transforms[k].output : k \in DOMAIN r.transforms}
    \cup {r.uploads[k].file : k \in DOMAIN r.uploads}

C11_Independent ==
    \A i \in Active, j \in Active :
        (/\ variant = "index" /\ i # j /\ inv[i].name # inv[j].name
         /\ ~ Returned(inv[i]) /\ ~ Returned(inv[j])) =>
            ScratchPaths(inv[i]) \cap ScratchPaths(inv[j]) = {}

(***************************************************************************)
(* C12: an upload follows its transform. Every upload an invocation issues *)
(* comes after the 'end' of the transform of the same artifact kind in     *)
(* that invocation and sends the output file of that transform; after the  *)
(* 'error' of a transform no upload of that kind is ever issued.           *)
(***************************************************************************)
C12_UploadAfterTransform ==
    \A i \in Active :
        LET r == inv[i]
        IN  /\ \A k \in DOMAIN r.calls :
                  (r.calls[k].op = "upload" /\ r.calls[k].ev = "start") =>
                      \E m \in 1..(k - 1) :
                          r.calls[m] = [op |-> "transform", kind |-> r.calls[k].kind,
                                        ev |-> "ok"]
            /\ \A k \in DOMAIN r.calls :
                  (r.calls[k].op = "transform" /\ r.calls[k].ev = "error") =>
                      \A m \in DOMAIN r.calls :
                          ~ (r.calls[m].op = "upload" /\ r.calls[m].kind = r.calls[k].kind)
            /\ \A k \in DOMAIN r.uploads :
                  \E m \in DOMAIN r.transforms :
                      /\ r.transforms[m].kind = r.uploads[k].kind
                      /\ r.transforms[m].output = r.uploads[k].file

\* The transcode was uploaded, then the poster transform failed: no poster
\* upload, and the invocation is rejected.
C12_Witness ==
    \E i \in Active :
        /\ Has(inv[i], "upload", "Transcode", "ok")
        /\ Has(inv[i], "transform", "Poster", "error")
        /\ Len(inv[i].uploads) = 1
        /\ inv[i].pc = "failed"

(***************************************************************************)
(* C13: removals target existing files of the invocation. Every            *)
(* unlinkSync of an invocation is called on a path that the invocation     *)
(* created before (the download for the input, the transform of that kind  *)
(* for an artifact), that it has not removed since, and that exists at the *)
(* call (no ENOENT).                                                       *)
(***************************************************************************)
\* The scratch path an unlink of the given kind is called on.
UnlinkPath(r, kind) ==
    IF kind = "Input" THEN TempLocalFile(r)
    ELSE LET k == CHOOSE m \in TransformsOf(r, kind) : TRUE
         IN  r.transforms[k].output

C13_RemovesOnlyOwnExisting ==
    \A i \in Active :
        LET r == inv[i]
        IN  \A k \in DOMAIN r.calls :
                r.calls[k].op = "unlink" =>
                    /\ r.calls[k].ev # "enoent"
                    /\ \E m \in 1..(k - 1) :
                          r.calls[m] =
                              IF r.calls[k].kind = "Input"
                              THEN [op |-> "download", kind |-> "Input", ev |-> "ok"]
                              ELSE [op |-> "transform", kind |-> r.calls[k].kind,
                                    ev |-> "ok"]
                    /\ TransformsOf(r, r.calls[k].kind) # {} \/ r.calls[k].kind = "Input"
                    /\ \A m \in 1..(k - 1) :
                          (r.calls[m].op = "unlink" /\ r.calls[m].ev = "ok") =>
                              UnlinkPath(r, r.calls[m].kind) # UnlinkPath(r, r.calls[k].kind)

\* index.js went through a whole video: the transcode, the poster, the
\* preview and the input were removed, in this order.
C13_Witness ==
    \E i \in Active :
        /\ inv[i].pc = "done"
        /\ SelectSeq(inv[i].calls, LAMBDA c : c.op = "unlink")
              = << [op |-> "unlink", kind |-> "Transcode", ev |-> "ok"],
                   [op |-> "unlink", kind |-> "Poster", ev |-> "ok"],
                   [op |-> "unlink", kind |-> "Preview", ev |-> "ok"],
                   [op |-> "unlink", kind |-> "Input", ev |-> "ok"] >>

(***************************************************************************)
(* C14: a failed delete is not escalated. When an unlinkSync of an         *)
(* invocation of index.js fails and no other call of that invocation       *)
(* failed, the invocation is not rejected; and an invocation that has      *)
(* ended after a failed delete of an artifact file has still attempted the *)
(* delete of its input.                                                    *)
(***************************************************************************)
UnlinkFailures(r) ==
    {k \in DOMAIN r.calls : r.calls[k].op = "unlink" /\ r.calls[k].ev # "ok"}

OtherFailures(r) ==
    {k \in DOMAIN r.calls : r.calls[k].op # "unlink" /\ r.calls[k].ev = "error"}

C14_DeleteFailureNotEscalated ==
    \A i \in Active :
        LET r == inv[i]
        IN  (variant = "index" /\ UnlinkFailures(r) # {}) =>
               /\ OtherFailures(r) = {} => r.pc # "failed"
               /\ Returned(r) =>
                     \E k \in DOMAIN r.calls :
                         r.calls[k].op = "unlink" /\ r.calls[k].kind = "Input"

(***************************************************************************)
(* C15: artifact scratch files are released. When an invocation of         *)
(* index.js has ended, as done or as failed, no output file that one of    *)
(* its transforms created exists any more (stated for the invocations in   *)
(* which no delete failed).                                                *)
(***************************************************************************)
\* The outputs of the transforms of r that ended well.
CreatedOutputs(r) ==
    {r.transforms[k].output :
        k \in {m \in DOMAIN r.transforms :
                 Has(r, "transform", r.transforms[m].kind, "ok")}}

C15_OutputsRemovedOnReturn ==
    \A i \in Active :
        (variant = "index" /\ Returned(inv[i]) /\ UnlinkFailures(inv[i]) = {}) =>
            CreatedOutputs(inv[i]) \cap localFiles = {}

(***************************************************************************)
(* C16: termination. Under the assumption that every external call (store  *)
(* call, probe, tool) eventually calls back, an invocation ends exactly    *)
(* when it never awaits a promise that nothing settles: in every state an  *)
(* invocation has returned, was rejected, or is about to run or suspended  *)
(* on an external call whose callback resumes it.                          *)
(***************************************************************************)
\* The handler is about to run, or suspended on an await whose promise the
\* callback of an external call settles.
AwaitsCall(r) ==
    r.pc \in {"received", "mkdirp", "download", "imageDimensions", "convert",
              "thumbUpload", "codec", "transcode", "transcodeUpload", "poster",
              "posterUpload", "videoDimensions", "preview", "previewUpload"}

C16_EndsOrAwaitsCall ==
    \A i \in Active :
        (variant = "index" /\ ~ inv[i].uncaught) =>
            Returned(inv[i]) \/ AwaitsCall(inv[i])

(***************************************************************************)
(* C17: no retries. Within one invocation the download is issued at most   *)
(* once and, for each artifact kind, the transform and the upload are each *)
(* issued at most once; an invocation on an image issues only Thumbnail    *)
(* transforms and uploads, an invocation on a video never a Thumbnail one. *)
(***************************************************************************)
\* The calls of r with the given op and kind that were issued.
Issued(r, op, kind) ==
    {k \in DOMAIN r.calls : r.calls[k] = [op |-> op, kind |-> kind, ev |-> "start"]}

KindsIssued(r) ==
    {r.transforms[k].kind : k \in DOMAIN r.transforms}
    \cup {r.uploads[k].kind : k \in DOMAIN r.uploads}

C17_NoRetries ==
    \A i \in Active :
        LET r == inv[i]
        IN  /\ Cardinality(Issued(r, "download", "Input")) <= 1
            /\ \A kind \in Kinds :
                  /\ Cardinality(Issued(r, "transform", kind)) <= 1
                  /\ Cardinality(Issued(r, "upload", kind)) <= 1
                  /\ Cardinality(TransformsOf(r, kind)) <= 1
            /\ Len(r.uploads) <= Len(r.transforms)
            /\ IF ImageNoCase(r) THEN KindsIssued(r) \subseteq {"Thumbnail"}
               ELSE KindsIssued(r) \subseteq {"Transcode", "Poster", "Preview"}

\* A video went through index.js: one download, and one transform and one
\* upload of each of Transcode, Poster and Preview.
C17_Witness ==
    \E i \in Active :
        /\ inv[i].pc = "done"
        /\ Cardinality(Issued(inv[i], "download", "Input")) = 1
        /\ \A kind \in {"Transcode", "Poster", "Preview"} :
              /\ Cardinality(Issued(inv[i], "transform", kind)) = 1
              /\ Cardinality(Issued(inv[i], "upload", kind)) = 1
        /\ Len(inv[i].uploads) = 3

(***************************************************************************)
(* C18: derived names are new names. For every transform index.js          *)
(* requests, the key computed for the artifact differs from the key of the *)
(* inbound object and the output path differs from the input path; and the *)
(* keys of the Transcode, Preview and Poster of one input differ from each *)
(* other.                                                                  *)
(***************************************************************************)
C18_DerivedNamesDiffer ==
    \A i \in Active :
        LET r == inv[i]
        IN  variant = "index" =>
               /\ \A k \in DOMAIN r.transforms :
                     /\ r.transforms[k].key # r.name
                     /\ r.transforms[k].output # r.transforms[k].input
               /\ \A k \in DOMAIN r.uploads :
                     /\ r.uploads[k].destination # r.name
                     /\ r.uploads[k].file # TempLocalFile(r)
               /\ \A k \in DOMAIN r.transforms, m \in DOMAIN r.transforms :
                     r.transforms[k].kind # r.transforms[m].kind =>
                         r.transforms[k].key # r.transforms[m].key

(***************************************************************************)
(* C19: preview bounds. For a video whose size (w, h) index.js has probed: *)
(* every preview requested has an integer scale s with 1 <= s <= 99,      *)
(* h * s / 100 <= 480 and w * s / 100 <= 425; and a preview is requested   *)
(* whenever h > 480 and w > 425.                                           *)
(***************************************************************************)
C19_PreviewBounds ==
    \A i \in Active :
        LET r == inv[i]
            w == r.dimensions.width.v
            h == r.dimensions.height.v
        IN  (/\ variant = "index" /\ VideoNoCase(r) /\ DimensionsKnown(r)
             /\ r.dimensions.width.def /\ r.dimensions.height.def) =>
               /\ \A k \in TransformsOf(r, "Preview") :
                     \E s \in 1..99 :
                         /\ r.transforms[k].args = <<s>>
                         /\ h * s <= 480 * 100
                         /\ w * s <= 425 * 100
               /\ (h > 480 /\ w > 425) => TransformsOf(r, "Preview") # {}

(***************************************************************************)
(* C20: the two files agree on the Transcode. For a video (content type    *)
(* video/... whatever the letter case) whose first video stream is not     *)
(* h264, the deployed file issues no Transcode upload but the one the      *)
(* other file issues for the same object -- same destination, same         *)
(* options -- and when it has returned it has issued that upload. The      *)
(* other file issues none when it takes the object as not eligible or as   *)
(* already derived.                                                        *)
(***************************************************************************)
OtherVariant(v) == IF v = "index" THEN "part_000" ELSE "index"

\* The Transcode uploads the file v issues for the object of r when no call
\* fails.
TranscodeUploads(v, r) ==
    IF ~ IsEligible(v, r.contentType) THEN {}
    ELSE IF IsImageType(v, r.contentType) \/ ~ IsVideoType(v, r.contentType) THEN {}
    ELSE IF IsDerivedVideoName(v, Basename(r.name)) THEN {}
    ELSE {UploadAfter(r, TranscodeTransform(v, r))}

C20_VariantsAgree ==
    \A i \in Active :
        LET r == inv[i]
            p == GetCodec(r.content)
            issued == {r.uploads[k] : k \in {m \in DOMAIN r.uploads :
                                               r.uploads[m].kind = "Transcode"}}
        IN  (VideoNoCase(r) /\ p.settled /\ p.value # "h264") =>
               /\ issued \subseteq TranscodeUploads(OtherVariant(variant), r)
               /\ r.pc = "done" =>
                     TranscodeUploads(OtherVariant(variant), r) \subseteq issued

====
